---- MODULE Spec2Model ----
(***************************************************************************)
(* A model of discord-mod-mail (src/main.py): the ModMail client relays    *)
(* direct messages of users to one staff channel and staff commands back,  *)
(* over a persisted ignore table and an in-memory per-user spam counter.   *)
(*                                                                         *)
(* Every event handler is an asyncio task.  A task runs without            *)
(* interruption between two awaits, so one action of the model is one      *)
(* awaited operation (a statement on the ignore table, a call of the       *)
(* platform, the end of a sleep) together with the code that runs from its *)
(* return to the next await.  on_message runs from the event to its first  *)
(* awaited operation without suspending and reads only already_ready       *)
(* (and, for r and m, last_id) on the way, so the event and the first      *)
(* awaited operation form one action.                                      *)
(***************************************************************************)
EXTENDS Integers, Sequences, FiniteSets, TLC

\* ---------------------------------------------------------------- bounds
\* handler tasks that can be in flight at once
MaxTasks == 2
\* direct-message events of one run
MaxDMs == 4
\* staff-channel message events of one run
MaxCmds == 2
\* staff-channel message events of one run of the relay scenario
MaxRelayCmds == 1
\* direct-message events of one run of the staff scenario
MaxStaffDMs == 2

\* ------------------------------------------------------- program constants
\* config["AntiSpam"]["messages"]
Threshold == 2
SIZE_LIMIT == 8388608
\* the literal 0x1000 of handle_attachments
WARN_MARGIN == 4096

\* ------------------------------------------------------------ input sets
Users == {111, 222}
\* the id of a bot account that writes to the client
BotUser == 999
\* a word of a message: a run of decimal digits, a signed numeral, or another word
W(s) == [kind |-> "word", w |-> s, n |-> 0]
D(n) == [kind |-> "digits", w |-> "", n |-> n]
\* the texts of the direct messages of the model, as their words
Texts == {<<W("hello")>>}
AUTO_REASON == "Automatic anti-spam ignore"

\* Optional[x]: None is the empty tuple, a value x is <<x>>
None == <<>>
Some(x) == <<x>>

\* the staff channel as the destination of an outbound call
Channel == 0

\* the attachments of the direct messages of the model
DMAttLists == {<<>>, <<SIZE_LIMIT + 1>>}
\* the attachments of the staff-channel messages of the model
CmdAttLists == {<<>>, <<SIZE_LIMIT>>, <<SIZE_LIMIT + 1>>}

Tasks == 1..MaxTasks

VARIABLES
    already_ready,          \* ModMail.already_ready
    channel,                \* ModMail.channel: resolved or not
    closed,                 \* the client was closed by on_ready
    ready_pc,               \* on_ready: "idle" or waiting in its startup post
    last_id,                \* ModMail.last_id
    ignored,                \* the rows of table ignored
    anti_spam_check,        \* the module's dictionary anti_spam_check
    anti_duplicate_replies, \* the module's dictionary anti_duplicate_replies
    tasks,                  \* the handler tasks: position, locals, outbound calls made
    nDM,                    \* direct-message events so far
    nCmd,                   \* staff-channel message events so far
    burst                   \* per user: messages admitted to the relay since the
                            \* last trip or elapsed cooldown of that user

vars == <<already_ready, channel, closed, ready_pc, last_id, ignored,
          anti_spam_check, anti_duplicate_replies, tasks, nDM, nCmd, burst>>

\* ------------------------------------------------------------ the ignore table
\* sqlite stores the bool is_quiet in the INTEGER column quiet
BoolToInt(b) == IF b THEN 1 ELSE 0

Row(user_id, is_quiet, reason) ==
    [user_id |-> user_id, quiet |-> BoolToInt(is_quiet), reason |-> reason]

HasRow(store, user_id) == \E r \in store : r.user_id = user_id

\* SELECT quiet, reason FROM ignored WHERE user_id = ?  (fetchone)
is_ignored(store, user_id) ==
    IF HasRow(store, user_id)
    THEN LET r == CHOOSE r \in store : r.user_id = user_id
         IN  Some(<<r.quiet, r.reason>>)
    ELSE None

\* ignored(user_id INTEGER PRIMARY KEY, quiet INTEGER, reason TEXT NULL): the
\* table is created from schema.sql; an insert of a second row of one user
\* violates the key
PrimaryKeyViolated(store, user_id) == HasRow(store, user_id)

\* a mutation of add_ignore: the handler of IntegrityError returns True
add_ignore_true(store, user_id, reason, is_quiet) ==
    IF PrimaryKeyViolated(store, user_id)
    THEN [store |-> store, ret |-> TRUE]
    ELSE [store |-> store \cup {Row(user_id, is_quiet, reason)}, ret |-> TRUE]

\* INSERT INTO ignored VALUES (?, ?, ?) and commit; an IntegrityError of the
\* primary key user_id gives False
add_ignore(store, user_id, reason, is_quiet) ==
    IF PrimaryKeyViolated(store, user_id)
    THEN [store |-> store, ret |-> FALSE]
    ELSE [store |-> store \cup {Row(user_id, is_quiet, reason)}, ret |-> TRUE]

\* a mutation of remove_ignore: the statement selects instead of deleting
remove_ignore_keep(store, user_id) ==
    [store |-> store, ret |-> Cardinality({r \in store : r.user_id = user_id})]

\* DELETE FROM ignored WHERE user_id = ?; the cursor's rowcount
remove_ignore(store, user_id) ==
    [store |-> {r \in store : r.user_id # user_id},
     ret   |-> Cardinality({r \in store : r.user_id = user_id})]

\* ------------------------------------------------------------ tasks
\* an outbound call of the platform, as the task that made it records it
Out(to, kind, uid, text, atts) ==
    [to |-> to, kind |-> kind, uid |-> uid, text |-> text, atts |-> atts]

IdleTask ==
    [kind |-> "none", pc |-> "idle", path |-> "", cmd |-> "", uid |-> 0,
     text |-> <<>>, atts |-> <<>>, quiet |-> FALSE, reason |-> None,
     res |-> None, ret |-> FALSE, member |-> "", dm |-> "", out |-> <<>>]

\* a handler that has returned ("done") or was left by an exception ("raised")
Ended(t) == tasks[t].pc \in {"done", "raised"}

\* an ended task is gone before the event loop runs anything else
Running == \A t \in Tasks : ~Ended(t)

Free(t) == tasks[t].pc = "idle"

\* the task of a new event: the first free slot
NewSlot(t) == Running /\ Free(t) /\ \A s \in Tasks : s < t => ~Free(s)

Step(t, rec) == tasks' = [tasks EXCEPT ![t] = rec]

Emit(t, o) == Append(tasks[t].out, o)

\* anti_spam_check[user_id], 0 standing for a key that is not in the dictionary
Count(user_id) ==
    IF user_id \in DOMAIN anti_spam_check THEN anti_spam_check[user_id] ELSE 0

SetCount(user_id, v) ==
    [x \in DOMAIN anti_spam_check \cup {user_id} |->
        IF x = user_id THEN v ELSE anti_spam_check[x]]

Init ==
    /\ already_ready = FALSE
    /\ channel = FALSE
    /\ closed = FALSE
    /\ ready_pc = "idle"
    /\ last_id = None
    /\ ignored = {}
    /\ anti_spam_check = [x \in {} |-> 0]
    /\ anti_duplicate_replies = [k \in {} |-> FALSE]
    /\ tasks = [t \in Tasks |-> IdleTask]
    /\ nDM = 0
    /\ nCmd = 0
    /\ burst = [u \in Users |-> 0]

\* ------------------------------------------------------------ on_ready
\* on_ready up to its startup post: the channel is looked up; the client is
\* closed when it is not a text channel
OnReady(found, post_startup_message) ==
    /\ ~closed /\ Running
    /\ ready_pc = "idle"
    /\ ~already_ready
    /\ IF ~found
       THEN /\ closed' = TRUE
            /\ UNCHANGED <<channel, ready_pc, already_ready>>
       ELSE /\ channel' = TRUE
            /\ IF post_startup_message
               THEN ready_pc' = "startup" /\ UNCHANGED already_ready
               ELSE already_ready' = TRUE /\ UNCHANGED ready_pc
            /\ UNCHANGED closed
    /\ UNCHANGED <<last_id, ignored, anti_spam_check, anti_duplicate_replies,
                   tasks, nDM, nCmd, burst>>

\* the startup post returns: already_ready = True
OnReadyPosted ==
    /\ ~closed /\ Running
    /\ ready_pc = "startup"
    /\ ready_pc' = "idle"
    /\ already_ready' = TRUE
    /\ UNCHANGED <<channel, closed, last_id, ignored, anti_spam_check,
                   anti_duplicate_replies, tasks, nDM, nCmd, burst>>

\* ------------------------------------------------------------ direct messages
\* a mutation of DMReceive: the ignore lookup is skipped
DMReceive_nolookup(t, author, bot, text, atts) ==
    /\ ~closed
    /\ nDM < MaxDMs
    /\ NewSlot(t)
    /\ nDM' = nDM + 1
    /\ IF bot \/ ~already_ready
       THEN UNCHANGED tasks
       ELSE Step(t, [IdleTask EXCEPT !.kind = "dm", !.uid = author,
                        !.text = text, !.atts = atts, !.pc = "admit"])
    /\ UNCHANGED <<already_ready, channel, closed, ready_pc, last_id, ignored,
                   anti_spam_check, anti_duplicate_replies, nCmd, burst>>

\* on_message, a message in a DM channel, up to the return of is_ignored
DMReceive(t, author, bot, text, atts) ==
    /\ ~closed
    /\ nDM < MaxDMs
    /\ NewSlot(t)
    /\ nDM' = nDM + 1
    /\ IF bot \/ ~already_ready
       THEN UNCHANGED tasks
       ELSE LET res == is_ignored(ignored, author)
                rec == [IdleTask EXCEPT !.kind = "dm", !.uid = author,
                           !.text = text, !.atts = atts, !.res = res]
            IN  IF res # None
                THEN Step(t, [rec EXCEPT !.pc = "done", !.path = "ignored"])
                ELSE Step(t, [rec EXCEPT !.pc = "admit"])
    /\ UNCHANGED <<already_ready, channel, closed, ready_pc, last_id, ignored,
                   anti_spam_check, anti_duplicate_replies, nCmd, burst>>

\* the anti-spam step: the counter is incremented and compared
DMAdmit(t) ==
    /\ Running /\ tasks[t].kind = "dm" /\ tasks[t].pc = "admit"
    /\ LET u == tasks[t].uid
           c == Count(u) + 1
       IN  /\ anti_spam_check' = SetCount(u, c)
           /\ IF c >= Threshold
              THEN /\ Step(t, [tasks[t] EXCEPT !.pc = "add_ignore",
                                               !.path = "tripped"])
                   /\ burst' = [burst EXCEPT ![u] = 0]
              ELSE /\ Step(t, [tasks[t] EXCEPT !.pc = "send",
                                               !.path = "relay"])
                   /\ burst' = [burst EXCEPT ![u] = @ + 1]
    /\ UNCHANGED <<already_ready, channel, closed, ready_pc, last_id, ignored,
                   anti_duplicate_replies, nDM, nCmd>>

\* await self.add_ignore(author.id, "Automatic anti-spam ignore")
DMAutoIgnore(t) ==
    /\ Running /\ tasks[t].kind = "dm" /\ tasks[t].pc = "add_ignore"
    /\ LET r == add_ignore(ignored, tasks[t].uid, Some(AUTO_REASON), FALSE)
       IN  /\ ignored' = r.store
           /\ Step(t, [tasks[t] EXCEPT !.pc = "notice", !.ret = r.ret])
    /\ UNCHANGED <<already_ready, channel, closed, ready_pc, last_id,
                   anti_spam_check, anti_duplicate_replies, nDM, nCmd, burst>>

\* the auto-ignore notice is posted, then the counter is reset; a failed
\* post raises out of the handler
DMNotice(t, ok) ==
    /\ Running /\ tasks[t].kind = "dm" /\ tasks[t].pc = "notice"
    /\ IF ok
       THEN /\ Step(t, [tasks[t] EXCEPT !.pc = "done",
                   !.out = Emit(t, Out(Channel, "auto_ignored", tasks[t].uid, <<>>, <<>>))])
            /\ anti_spam_check' = SetCount(tasks[t].uid, 0)
       ELSE /\ Step(t, [tasks[t] EXCEPT !.pc = "raised"])
            /\ UNCHANGED anti_spam_check
    /\ UNCHANGED <<already_ready, channel, closed, ready_pc, last_id, ignored,
                   anti_duplicate_replies, nDM, nCmd, burst>>

\* a mutation of DMSend: a message with an attachment over SIZE_LIMIT is not posted
DMSend_sizecheck(t, ok) ==
    /\ Running /\ tasks[t].kind = "dm" /\ tasks[t].pc = "send"
    /\ IF \E i \in 1..Len(tasks[t].atts) : tasks[t].atts[i] > SIZE_LIMIT
       THEN Step(t, [tasks[t] EXCEPT !.pc = "done"])
       ELSE IF ok
       THEN Step(t, [tasks[t] EXCEPT !.pc = "react",
                   !.out = Emit(t, Out(Channel, "relay", tasks[t].uid,
                                      tasks[t].text, tasks[t].atts))])
       ELSE Step(t, [tasks[t] EXCEPT !.pc = "raised"])
    /\ UNCHANGED <<already_ready, channel, closed, ready_pc, last_id, ignored,
                   anti_spam_check, anti_duplicate_replies, nDM, nCmd, burst>>

\* await self.channel.send(to_send, embed=embed): the author's id, the text
\* and the list of the attachments
DMSend(t, ok) ==
    /\ Running /\ tasks[t].kind = "dm" /\ tasks[t].pc = "send"
    /\ IF ok
       THEN Step(t, [tasks[t] EXCEPT !.pc = "react",
                   !.out = Emit(t, Out(Channel, "relay", tasks[t].uid,
                                      tasks[t].text, tasks[t].atts))])
       ELSE Step(t, [tasks[t] EXCEPT !.pc = "raised"])
    /\ UNCHANGED <<already_ready, channel, closed, ready_pc, last_id, ignored,
                   anti_spam_check, anti_duplicate_replies, nDM, nCmd, burst>>

\* a mutation of DMReact: last_id is set although the reaction failed
DMReact_always(t, ok) ==
    /\ Running /\ tasks[t].kind = "dm" /\ tasks[t].pc = "react"
    /\ IF ok
       THEN Step(t, [tasks[t] EXCEPT !.pc = "sleep",
                   !.out = Emit(t, Out(tasks[t].uid, "reaction", tasks[t].uid, <<>>, <<>>))])
       ELSE Step(t, [tasks[t] EXCEPT !.pc = "raised"])
    /\ last_id' = Some(tasks[t].uid)
    /\ UNCHANGED <<already_ready, channel, closed, ready_pc, ignored,
                   anti_spam_check, anti_duplicate_replies, nDM, nCmd, burst>>

\* await message.add_reaction(...), then self.last_id = author.id
DMReact(t, ok) ==
    /\ Running /\ tasks[t].kind = "dm" /\ tasks[t].pc = "react"
    /\ IF ok
       THEN /\ Step(t, [tasks[t] EXCEPT !.pc = "sleep",
                   !.out = Emit(t, Out(tasks[t].uid, "reaction", tasks[t].uid, <<>>, <<>>))])
            /\ last_id' = Some(tasks[t].uid)
       ELSE /\ Step(t, [tasks[t] EXCEPT !.pc = "raised"])
            /\ UNCHANGED last_id
    /\ UNCHANGED <<already_ready, channel, closed, ready_pc, ignored,
                   anti_spam_check, anti_duplicate_replies, nDM, nCmd, burst>>

\* await asyncio.sleep(seconds) returns: anti_spam_check[author.id] -= 1
DMCooldown(t) ==
    /\ Running /\ tasks[t].kind = "dm" /\ tasks[t].pc = "sleep"
    /\ anti_spam_check' = SetCount(tasks[t].uid, Count(tasks[t].uid) - 1)
    /\ burst' = [burst EXCEPT ![tasks[t].uid] = 0]
    /\ Step(t, [tasks[t] EXCEPT !.pc = "done"])
    /\ UNCHANGED <<already_ready, channel, closed, ready_pc, last_id, ignored,
                   anti_duplicate_replies, nDM, nCmd>>

\* ------------------------------------------------------------ on_typing
\* on_typing up to the return of is_ignored; the handler does not read
\* already_ready, and does nothing for a channel that is no DM channel
Typing(t, user, dm) ==
    /\ ~closed
    /\ NewSlot(t)
    /\ IF ~dm
       THEN UNCHANGED tasks
       ELSE LET res == is_ignored(ignored, user)
            IN  Step(t, [IdleTask EXCEPT !.kind = "typing", !.uid = user,
                            !.res = res,
                            !.pc = IF res # None THEN "done" ELSE "typing"])
    /\ UNCHANGED <<already_ready, channel, closed, ready_pc, last_id, ignored,
                   anti_spam_check, anti_duplicate_replies, nDM, nCmd, burst>>

\* a mutation of TypingForward: the handler changes last_id like a relay
TypingForward_last(t) ==
    /\ Running /\ tasks[t].kind = "typing" /\ tasks[t].pc = "typing"
    /\ IF channel
       THEN Step(t, [tasks[t] EXCEPT !.pc = "done",
                   !.out = Emit(t, Out(Channel, "typing", tasks[t].uid, <<>>, <<>>))])
       ELSE Step(t, [tasks[t] EXCEPT !.pc = "raised"])
    /\ last_id' = Some(tasks[t].uid)
    /\ UNCHANGED <<already_ready, channel, closed, ready_pc, ignored,
                   anti_spam_check, anti_duplicate_replies, nDM, nCmd, burst>>

\* await self.channel.typing(); self.channel has no value before on_ready
\* sets it, and reading it then raises AttributeError
TypingForward(t) ==
    /\ Running /\ tasks[t].kind = "typing" /\ tasks[t].pc = "typing"
    /\ IF channel
       THEN Step(t, [tasks[t] EXCEPT !.pc = "done",
                   !.out = Emit(t, Out(Channel, "typing", tasks[t].uid, <<>>, <<>>))])
       ELSE Step(t, [tasks[t] EXCEPT !.pc = "raised"])
    /\ UNCHANGED <<already_ready, channel, closed, ready_pc, last_id, ignored,
                   anti_spam_check, anti_duplicate_replies, nDM, nCmd, burst>>

\* ------------------------------------------------------------ staff commands
\* a mutation of IsInt: the conversion of the id is not checked
IsInt_any(tok) == tok.kind \in {"digits", "signed", "word"}

\* str.isdigit() and int(str)
isdigit(tok) == tok.kind = "digits"
IsInt(tok) == tok.kind \in {"digits", "signed"}

\* content[len(prefix):].split(maxsplit=1): the first word and the rest of the line
Split1(ws) ==
    IF ws = <<>> THEN <<>>
    ELSE IF Len(ws) = 1 THEN <<ws[1]>>
    ELSE <<ws[1], Tail(ws)>>

Is(tok, s) == tok.kind = "word" /\ tok.w = s

\* which case of the match statement the arguments fall in
Shape(args) ==
    IF Len(args) = 1 /\ (Is(args[1], "ignore") \/ Is(args[1], "qignore")
                          \/ Is(args[1], "unignore")) THEN "missing_id"
    ELSE IF Len(args) = 2 /\ Is(args[1], "ignore") THEN "ignore"
    ELSE IF Len(args) = 2 /\ Is(args[1], "qignore") THEN "qignore"
    ELSE IF Len(args) = 2 /\ Is(args[1], "unignore") THEN "unignore"
    ELSE IF isdigit(args[1]) THEN "num"
    ELSE IF Is(args[1], "r") THEN "r"
    ELSE IF Is(args[1], "m") THEN "m"
    ELSE IF Is(args[1], "fixgame") THEN "fixgame"
    ELSE "other"

\* message_content[0] if message_content else ""
Content(args) == IF Len(args) = 2 THEN args[2] ELSE <<>>

\* user_id_str, *reason = params.split(maxsplit=1)
Reason(params) == IF Len(params) > 1 THEN Some(Tail(params)) ELSE None

\* the staff-channel messages of the model, as the words after the prefix
CmdLines ==
    UNION {{<<W("ignore"), D(u)>>,
            <<W("qignore"), D(u), W("spam")>>, <<W("unignore"), D(u)>>,
            <<D(u), W("hi")>>, <<D(u)>>} : u \in Users}
    \cup {<<W("r"), W("hi")>>, <<W("r")>>, <<W("m")>>, <<W("fixgame")>>,
          <<W("ignore")>>, <<W("ignore"), W("abc")>>, <<W("unignore"), W("abc")>>,
          <<W("hello")>>, <<>>}

\* a mutation of HardError: the comparison with SIZE_LIMIT is not strict
HardError_ge(atts) == \E i \in 1..Len(atts) : atts[i] >= SIZE_LIMIT

\* the two size checks of handle_attachments
HardError(atts) == \E i \in 1..Len(atts) : atts[i] > SIZE_LIMIT
SoftWarning(atts) ==
    \E i \in 1..Len(atts) : atts[i] <= SIZE_LIMIT /\ atts[i] > SIZE_LIMIT - WARN_MARGIN

Members == {"member", "bot", "absent"}

\* the staff-channel events of the model: the message (of a bot or not, with
\* the prefix or not, its words, its attachments) and what the platform
\* answers during the handler (guild.get_member, and whether the target
\* accepts a direct message); an answer the handler does not ask for is
\* fixed, and the attachments come with the replies that have no text
CmdEvent(bot, prefixed, line, atts, member, delivered) ==
    [bot |-> bot, prefixed |-> prefixed, line |-> line, atts |-> atts,
     member |-> member, delivered |-> delivered]

CmdEvents ==
    {CmdEvent(TRUE, TRUE, <<W("m")>>, <<>>, "member", TRUE),
     CmdEvent(FALSE, FALSE, <<W("m")>>, <<>>, "member", TRUE)}
    \cup
    {CmdEvent(FALSE, TRUE, l, a, m, d) :
        l \in CmdLines, a \in CmdAttLists, m \in Members, d \in BOOLEAN}

\* the events that differ in something their handler reads
Relevant(ev) ==
    LET shape == IF Split1(ev.line) = <<>> THEN "none" ELSE Shape(Split1(ev.line))
        asked == (shape \in {"ignore", "unignore", "num", "r"}
                    /\ (shape \in {"num", "r"} \/ IsInt(ev.line[2]))
                    /\ (shape \in {"num", "r"} => Len(ev.line) > 1 \/ ev.atts # <<>>))
    IN  \/ ev.bot \/ ~ev.prefixed
        \/ /\ (shape \notin {"num", "r"} \/ Len(ev.line) > 1 => ev.atts = <<>>)
           /\ (~asked => ev.member = "member" /\ ev.delivered)
           /\ (asked /\ shape \in {"ignore", "unignore"} => ev.member # "bot")
           /\ (asked /\ ev.member # "member" => ev.delivered)
           /\ (asked /\ HardError(ev.atts) => ev.delivered)

RelevantCmdEvents == {ev \in CmdEvents : Relevant(ev)}

Post(kind, uid, text) == Out(Channel, kind, uid, text, <<>>)

\* the task of a command: its case, its target and its first word
CmdTask(shape, key, uid) ==
    [IdleTask EXCEPT !.kind = "cmd", !.cmd = shape, !.text = <<key>>, !.uid = uid]

\* handle_attachments: the size check, then the download of every attachment

handle_attachments(atts) ==
    IF atts = <<>> THEN [raised |-> FALSE, out |-> <<>>]
    ELSE IF HardError(atts)
    THEN [raised |-> TRUE, out |-> <<Out(Channel, "too_large", 0, <<>>, atts)>>]
    ELSE [raised |-> FALSE,
          out |-> (IF SoftWarning(atts)
                   THEN <<Out(Channel, "size_warning", 0, <<>>, atts)>> ELSE <<>>)
                  \o <<Out(Channel, "progress", 0, <<>>, <<>>)>>
                  \o [i \in 1..Len(atts) |-> Out(Channel, "downloaded", 0, <<>>, <<atts[i]>>)]]

\* the answer of member.send, "" when the handler does not call it
Answer(asked, delivered) ==
    IF ~asked THEN "" ELSE IF delivered THEN "delivered" ELSE "forbidden"

\* a mutation of reply_target: an unset last_id is taken for the id 0
reply_target_zero(shape, key, last) ==
    IF shape = "num" THEN Some(key.n) ELSE IF last = None THEN Some(0) ELSE last

\* the target of a staff reply: the numeric first word, or last_id for r;
\* None stands for the falsy last_id of "if self.last_id"
reply_target(shape, key, last) ==
    IF shape = "num" THEN Some(key.n) ELSE last

\* a mutation of staff_reply: the handler goes on after the refused delivery
staff_reply_noreturn(user_id, member, content, atts, delivered) ==
    IF member = "absent" THEN [sent |-> FALSE, out |-> <<Post("member_not_found", user_id, <<>>)>>]
    ELSE IF member = "bot" THEN [sent |-> FALSE, out |-> <<Post("target_is_bot", user_id, <<>>)>>]
    ELSE LET a == handle_attachments(atts)
         IN  IF a.raised THEN [sent |-> FALSE, out |-> a.out]
             ELSE IF ~delivered
             THEN [sent |-> TRUE,
                   out |-> a.out \o <<Post("disabled_dms", user_id, <<>>)>>]
             ELSE [sent |-> TRUE,
                   out |-> a.out \o <<Out(user_id, "staff_reply", user_id, content, atts)>>]

\* handle_staff_reply up to the return of member.send
staff_reply(user_id, member, content, atts, delivered) ==
    IF member = "absent" THEN [sent |-> FALSE, out |-> <<Post("member_not_found", user_id, <<>>)>>]
    ELSE IF member = "bot" THEN [sent |-> FALSE, out |-> <<Post("target_is_bot", user_id, <<>>)>>]
    ELSE LET a == handle_attachments(atts)
         IN  IF a.raised THEN [sent |-> FALSE, out |-> a.out]
             ELSE IF ~delivered
             THEN [sent |-> FALSE,
                   out |-> a.out \o <<Post("disabled_dms", user_id, <<>>)>>]
             ELSE [sent |-> TRUE,
                   out |-> a.out \o <<Out(user_id, "staff_reply", user_id, content, atts)>>]

\* a mutation of ignore_outputs: the quiet flag is not looked at
ignore_outputs_loud(user_id, reason, quiet, member, delivered, ret) ==
    IF ~ret THEN <<Post("already_ignored", user_id, <<>>)>>
    ELSE (IF member = "absent"
          THEN <<Post("notify_not_found", user_id, <<>>)>>
          ELSE IF delivered
          THEN <<Out(user_id, "ignore_notice", user_id,
                     IF reason = None THEN <<>> ELSE reason[1], <<>>)>>
          ELSE <<Post("notify_disabled", user_id, <<>>)>>)
         \o <<Post("now_ignored", user_id, <<>>)>>

\* a mutation of ignore_outputs: a notification that is refused or has no
\* member to go to ends the handler
ignore_outputs_stop(user_id, reason, quiet, member, delivered, ret) ==
    IF ~ret THEN <<Post("already_ignored", user_id, <<>>)>>
    ELSE IF quiet THEN <<Post("now_ignored", user_id, <<>>)>>
    ELSE IF member = "absent" THEN <<Post("notify_not_found", user_id, <<>>)>>
    ELSE IF delivered
    THEN <<Out(user_id, "ignore_notice", user_id,
               IF reason = None THEN <<>> ELSE reason[1], <<>>),
           Post("now_ignored", user_id, <<>>)>>
    ELSE <<Post("notify_disabled", user_id, <<>>)>>

\* handle_ignore from the return of add_ignore to its end
ignore_outputs(user_id, reason, quiet, member, delivered, ret) ==
    IF ~ret THEN <<Post("already_ignored", user_id, <<>>)>>
    ELSE (IF quiet THEN <<>>
          ELSE IF member = "absent"
          THEN <<Post("notify_not_found", user_id, <<>>)>>
          ELSE IF delivered
          THEN <<Out(user_id, "ignore_notice", user_id,
                     IF reason = None THEN <<>> ELSE reason[1], <<>>)>>
          ELSE <<Post("notify_disabled", user_id, <<>>)>>)
         \o <<Post("now_ignored", user_id, <<>>)>>

\* a mutation of unignore_notify: the quiet flag of the row is not looked at
unignore_notify_loud(user_id, res, member, delivered) ==
    IF res = None THEN <<>>
    ELSE IF member = "absent" THEN <<Post("notify_not_found", user_id, <<>>)>>
    ELSE IF delivered THEN <<Out(user_id, "unignore_notice", user_id, <<>>, <<>>)>>
    ELSE <<Post("notify_disabled", user_id, <<>>)>>

\* handle_unignore from the return of is_ignored to the call of remove_ignore
unignore_notify(user_id, res, member, delivered) ==
    IF res = None THEN <<>>
    ELSE IF res[1][1] # 0 THEN <<>>
    ELSE IF member = "absent" THEN <<Post("notify_not_found", user_id, <<>>)>>
    ELSE IF delivered THEN <<Out(user_id, "unignore_notice", user_id, <<>>, <<>>)>>
    ELSE <<Post("notify_disabled", user_id, <<>>)>>

\* on_message, a message in the staff channel, up to the return of its first
\* statement on the ignore table (or to its sleep, when it makes none)
CmdReceive(t, ev) ==
    LET bot == ev.bot
        prefixed == ev.prefixed
        line == ev.line
        atts == ev.atts
        member == ev.member
        delivered == ev.delivered
    IN
    /\ ~closed
    /\ nCmd < MaxCmds
    /\ NewSlot(t)
    /\ nCmd' = nCmd + 1
    /\ LET args  == Split1(line)
           shape == Shape(args)
           key   == args[1]
       IN
       IF bot \/ ~already_ready \/ ~prefixed \/ args = <<>>
       THEN UNCHANGED <<tasks, ignored>>
       ELSE CASE shape = "missing_id" ->
                 /\ Step(t, [CmdTask(shape, key, 0) EXCEPT !.pc = "cooldown",
                                !.out = <<Post("forgot_id", 0, <<>>)>>])
                 /\ UNCHANGED ignored
            [] shape \in {"ignore", "qignore"} ->
                 LET user_id_str == args[2][1]
                     reason == Reason(args[2])
                     quiet  == shape = "qignore"
                 IN  IF ~IsInt(user_id_str)
                     THEN /\ Step(t, [CmdTask(shape, key, 0) EXCEPT !.pc = "cooldown",
                                         !.out = <<Post("not_int", 0, <<>>)>>])
                          /\ UNCHANGED ignored
                     ELSE LET r == add_ignore(ignored, user_id_str.n, reason, quiet)
                          IN  /\ ignored' = r.store
                              /\ Step(t, [CmdTask(shape, key, user_id_str.n) EXCEPT
                                     !.pc = "cooldown", !.quiet = quiet,
                                     !.reason = reason, !.ret = r.ret,
                                     !.member = member,
                                     !.dm = Answer(r.ret /\ ~quiet /\ member # "absent",
                                                   delivered),
                                     !.out = ignore_outputs(user_id_str.n, reason, quiet,
                                                            member, delivered, r.ret)])
            [] shape = "unignore" ->
                 LET user_id_str == args[2][1]
                 IN  IF ~IsInt(user_id_str)
                     THEN /\ Step(t, [CmdTask(shape, key, 0) EXCEPT !.pc = "cooldown",
                                         !.out = <<Post("not_int", 0, <<>>)>>])
                          /\ UNCHANGED ignored
                     ELSE LET res == is_ignored(ignored, user_id_str.n)
                          IN  /\ Step(t, [CmdTask(shape, key, user_id_str.n) EXCEPT
                                     !.pc = "remove", !.res = res, !.member = member,
                                     !.dm = Answer(res # None /\ res[1][1] = 0
                                                     /\ member # "absent", delivered),
                                     !.out = unignore_notify(user_id_str.n, res,
                                                             member, delivered)])
                              /\ UNCHANGED ignored
            [] shape \in {"num", "r"} ->
                 LET content == Content(args)
                     target  == reply_target(shape, key, last_id)
                 IN  /\ UNCHANGED ignored
                     /\ IF target = None
                        THEN Step(t, [CmdTask(shape, key, 0) EXCEPT !.pc = "done",
                                         !.out = <<Post("no_last", 0, <<>>)>>])
                        ELSE IF Len(args) = 1 /\ atts = <<>>
                        THEN Step(t, [CmdTask(shape, key, target[1]) EXCEPT !.pc = "done",
                                         !.out = <<Post("forgot_message", 0, <<>>)>>])
                        ELSE LET s == staff_reply(target[1], member, content, atts, delivered)
                             IN  Step(t, [CmdTask(shape, key, target[1]) EXCEPT
                                     !.pc = IF s.sent THEN "header" ELSE "cooldown",
                                     !.member = member, !.atts = atts,
                                     !.text = <<key>> \o content,
                                     !.dm = Answer(member = "member" /\ ~HardError(atts),
                                                   delivered),
                                     !.ret = s.sent, !.out = s.out])
            [] shape = "m" ->
                 /\ UNCHANGED ignored
                 /\ IF last_id = None
                    THEN Step(t, [CmdTask(shape, key, 0) EXCEPT !.pc = "done",
                                     !.out = <<Post("no_last", 0, <<>>)>>])
                    ELSE Step(t, [CmdTask(shape, key, last_id[1]) EXCEPT !.pc = "cooldown",
                                     !.out = <<Post("last_is", last_id[1], <<>>)>>])
            [] shape = "fixgame" ->
                 /\ UNCHANGED ignored
                 /\ Step(t, [CmdTask(shape, key, 0) EXCEPT !.pc = "cooldown",
                                !.out = <<Out(-1, "presence", 0, <<>>, <<>>),
                                          Out(-1, "presence", 0, <<>>, <<>>),
                                          Post("presence_reset", 0, <<>>)>>])
            [] OTHER ->
                 /\ UNCHANGED ignored
                 /\ Step(t, [CmdTask(shape, key, 0) EXCEPT !.pc = "cooldown"])
    /\ UNCHANGED <<already_ready, channel, closed, ready_pc, last_id,
                   anti_spam_check, anti_duplicate_replies, nDM, burst>>

\* a mutation of CmdRemove: the report does not depend on the rowcount
CmdRemove_always(t) ==
    /\ Running /\ tasks[t].kind = "cmd" /\ tasks[t].pc = "remove"
    /\ LET r == remove_ignore(ignored, tasks[t].uid)
       IN  /\ ignored' = r.store
           /\ Step(t, [tasks[t] EXCEPT !.pc = "cooldown", !.ret = TRUE,
                  !.out = Emit(t, Post("no_longer_ignored", tasks[t].uid, <<>>))])
    /\ UNCHANGED <<already_ready, channel, closed, ready_pc, last_id,
                   anti_spam_check, anti_duplicate_replies, nDM, nCmd, burst>>

\* handle_unignore: await self.remove_ignore(user_id), then the report
CmdRemove(t) ==
    /\ Running /\ tasks[t].kind = "cmd" /\ tasks[t].pc = "remove"
    /\ LET r == remove_ignore(ignored, tasks[t].uid)
       IN  /\ ignored' = r.store
           /\ Step(t, [tasks[t] EXCEPT !.pc = "cooldown", !.ret = r.ret # 0,
                  !.out = Emit(t, Post(IF r.ret # 0 THEN "no_longer_ignored"
                                       ELSE "not_ignored", tasks[t].uid, <<>>))])
    /\ UNCHANGED <<already_ready, channel, closed, ready_pc, last_id,
                   anti_spam_check, anti_duplicate_replies, nDM, nCmd, burst>>

\* a mutation of CmdHeader: the command message is deleted before the
\* confirmation is posted
CmdHeader_deletefirst(t) ==
    /\ Running /\ tasks[t].kind = "cmd" /\ tasks[t].pc = "header"
    /\ LET res == is_ignored(ignored, tasks[t].uid)
           o1  == Emit(t, Out(Channel, "delete_command", 0, <<>>, <<>>))
           o2  == Append(o1, Post(IF res # None THEN "replying_ignored" ELSE "replying",
                                  tasks[t].uid, <<>>))
       IN  Step(t, [tasks[t] EXCEPT !.pc = "cooldown", !.res = res,
               !.out = IF tasks[t].atts # <<>>
                       THEN Append(o2, Out(Channel, "delete_progress", 0, <<>>, <<>>))
                       ELSE o2])
    /\ UNCHANGED <<already_ready, channel, closed, ready_pc, last_id, ignored,
                   anti_spam_check, anti_duplicate_replies, nDM, nCmd, burst>>

\* handle_staff_reply after the delivery: is_ignored for the header, the
\* confirmation, then the deletion of the progress and the command messages
CmdHeader(t) ==
    /\ Running /\ tasks[t].kind = "cmd" /\ tasks[t].pc = "header"
    /\ LET res == is_ignored(ignored, tasks[t].uid)
           o1  == Emit(t, Post(IF res # None THEN "replying_ignored" ELSE "replying",
                               tasks[t].uid, <<>>))
           o2  == IF tasks[t].atts # <<>>
                  THEN Append(o1, Out(Channel, "delete_progress", 0, <<>>, <<>>))
                  ELSE o1
       IN  Step(t, [tasks[t] EXCEPT !.pc = "cooldown", !.res = res,
               !.out = Append(o2, Out(Channel, "delete_command", 0, <<>>, <<>>))])
    /\ UNCHANGED <<already_ready, channel, closed, ready_pc, last_id, ignored,
                   anti_spam_check, anti_duplicate_replies, nDM, nCmd, burst>>

\* await asyncio.sleep(2) returns: anti_duplicate_replies[args[0]] = False
CmdCooldown(t) ==
    /\ Running /\ tasks[t].kind = "cmd" /\ tasks[t].pc = "cooldown"
    /\ anti_duplicate_replies' =
          [k \in DOMAIN anti_duplicate_replies \cup {tasks[t].text[1]} |-> FALSE]
    /\ Step(t, [tasks[t] EXCEPT !.pc = "done"])
    /\ UNCHANGED <<already_ready, channel, closed, ready_pc, last_id, ignored,
                   anti_spam_check, nDM, nCmd, burst>>

\* ------------------------------------------------------------ storage errors
\* the statement that task t awaits (add_ignore of the anti-spam step,
\* remove_ignore, is_ignored for the header) raises an sqlite3 error other
\* than the IntegrityError of add_ignore: no handler catches it
StoreFails(t) ==
    /\ Running /\ tasks[t].pc \in {"add_ignore", "remove", "header"}
    /\ Step(t, [tasks[t] EXCEPT !.pc = "raised", !.path = "storage_error"])
    /\ UNCHANGED <<already_ready, channel, closed, ready_pc, last_id, ignored,
                   anti_spam_check, anti_duplicate_replies, nDM, nCmd, burst>>

\* the ignore lookup of a direct message raises
DMLookupFails(t, author, text) ==
    /\ ~closed /\ already_ready
    /\ nDM < MaxDMs
    /\ NewSlot(t)
    /\ nDM' = nDM + 1
    /\ Step(t, [IdleTask EXCEPT !.kind = "dm", !.uid = author, !.text = text,
                    !.pc = "raised", !.path = "storage_error"])
    /\ UNCHANGED <<already_ready, channel, closed, ready_pc, last_id, ignored,
                   anti_spam_check, anti_duplicate_replies, nCmd, burst>>

\* the first statement of an ignore, qignore or unignore command with an
\* integer id (add_ignore, is_ignored) raises
CmdStoreFails(t, ev) ==
    /\ ~closed /\ already_ready
    /\ ~ev.bot /\ ev.prefixed /\ Split1(ev.line) # <<>>
    /\ Shape(Split1(ev.line)) \in {"ignore", "qignore", "unignore"}
    /\ IsInt(ev.line[2])
    /\ nCmd < MaxCmds
    /\ NewSlot(t)
    /\ nCmd' = nCmd + 1
    /\ Step(t, [CmdTask(Shape(Split1(ev.line)), ev.line[1], ev.line[2].n) EXCEPT
                    !.pc = "raised", !.path = "storage_error",
                    !.member = ev.member])
    /\ UNCHANGED <<already_ready, channel, closed, ready_pc, last_id, ignored,
                   anti_spam_check, anti_duplicate_replies, nDM, burst>>

\* ------------------------------------------------------------ the end of a task
Return(t) ==
    /\ Ended(t)
    /\ tasks' = [tasks EXCEPT ![t] = IdleTask]
    /\ UNCHANGED <<already_ready, channel, closed, ready_pc, last_id, ignored,
                   anti_spam_check, anti_duplicate_replies, nDM, nCmd, burst>>

\* the steps of the tasks in flight
DMStep ==
    \/ \E t \in Tasks : DMAdmit(t)
    \/ \E t \in Tasks : DMAutoIgnore(t)
    \/ \E t \in Tasks, ok \in BOOLEAN : DMNotice(t, ok)
    \/ \E t \in Tasks, ok \in BOOLEAN : DMSend(t, ok)
    \/ \E t \in Tasks, ok \in BOOLEAN : DMReact(t, ok)
    \/ \E t \in Tasks : DMCooldown(t)

Startup ==
    \/ \E found \in BOOLEAN, p \in BOOLEAN : OnReady(found, p)
    \/ OnReadyPosted

\* the staff-channel events of the relay scenario: ignore and unignore of a
\* member who accepts direct messages
RelayCmdEvents ==
    {CmdEvent(FALSE, TRUE, <<W(c), D(u)>>, <<>>, "member", TRUE) :
        c \in {"ignore", "unignore"}, u \in Users}

\* the relay scenario: every direct message, the staff only ignores and unignores
NextRelay ==
    \/ Startup
    \/ \E t \in Tasks, u \in Users, x \in Texts, a \in DMAttLists :
          DMReceive(t, u, FALSE, x, a)
    \/ \E t \in Tasks : DMReceive(t, BotUser, TRUE, <<>>, <<>>)
    \/ DMStep
    \/ \E t \in Tasks, ev \in RelayCmdEvents :
          nCmd < MaxRelayCmds /\ CmdReceive(t, ev)
    \/ \E t \in Tasks : CmdRemove(t)
    \/ \E t \in Tasks : CmdCooldown(t)
    \/ \E t \in Tasks : Return(t)

SpecRelay == Init /\ [][NextRelay]_vars

\* the staff scenario: every staff-channel message, and direct messages
\* without attachments
NextStaff ==
    \/ Startup
    \/ \E t \in Tasks, u \in Users, x \in Texts :
          nDM < MaxStaffDMs /\ DMReceive(t, u, FALSE, x, <<>>)
    \/ DMStep
    \/ \E t \in Tasks, ev \in RelevantCmdEvents : CmdReceive(t, ev)
    \/ \E t \in Tasks : CmdRemove(t)
    \/ \E t \in Tasks : CmdHeader(t)
    \/ \E t \in Tasks : CmdCooldown(t)
    \/ \E t \in Tasks : Return(t)

SpecStaff == Init /\ [][NextStaff]_vars

\* the attachments of the attachment scenario: sizes on both sides of
\* SIZE_LIMIT - 0x1000 and of SIZE_LIMIT, alone and next to another one
AttachLists ==
    {<<SIZE_LIMIT - WARN_MARGIN>>, <<SIZE_LIMIT - WARN_MARGIN + 1>>,
     <<SIZE_LIMIT>>, <<SIZE_LIMIT + 1>>,
     <<SIZE_LIMIT - WARN_MARGIN, SIZE_LIMIT + 1>>,
     <<SIZE_LIMIT + 1, SIZE_LIMIT>>,
     <<SIZE_LIMIT, SIZE_LIMIT - WARN_MARGIN>>}

\* the staff-channel events of the attachment scenario: numeric replies
\* that carry attachments, with and without text
AttachCmdEvents ==
    {CmdEvent(FALSE, TRUE, l, a, m, d) :
        l \in {<<D(111)>>, <<D(111), W("hi")>>}, a \in AttachLists,
        m \in Members, d \in BOOLEAN}

\* the attachment scenario: staff replies with attachments
NextAttach ==
    \/ Startup
    \/ \E t \in Tasks, ev \in AttachCmdEvents : CmdReceive(t, ev)
    \/ \E t \in Tasks : CmdHeader(t)
    \/ \E t \in Tasks : CmdCooldown(t)
    \/ \E t \in Tasks : Return(t)

SpecAttach == Init /\ [][NextAttach]_vars

\* the typing scenario: typing events next to direct messages and to the
\* ignore and unignore commands of the staff
NextTyping ==
    \/ Startup
    \/ \E t \in Tasks, u \in Users, dm \in BOOLEAN : Typing(t, u, dm)
    \/ \E t \in Tasks : TypingForward(t)
    \/ \E t \in Tasks, u \in Users, x \in Texts :
          nDM < MaxStaffDMs /\ DMReceive(t, u, FALSE, x, <<>>)
    \/ DMStep
    \/ \E t \in Tasks, ev \in RelayCmdEvents : CmdReceive(t, ev)
    \/ \E t \in Tasks : CmdRemove(t)
    \/ \E t \in Tasks : CmdCooldown(t)
    \/ \E t \in Tasks : Return(t)

SpecTyping == Init /\ [][NextTyping]_vars

\* the cooldown scenario: direct messages whose platform calls all succeed,
\* next to the ignore and unignore commands of the staff
NextCooldown ==
    \/ Startup
    \/ \E t \in Tasks, u \in Users, x \in Texts :
          DMReceive(t, u, FALSE, x, <<>>)
    \/ \E t \in Tasks : DMAdmit(t)
    \/ \E t \in Tasks : DMAutoIgnore(t)
    \/ \E t \in Tasks : DMNotice(t, TRUE)
    \/ \E t \in Tasks : DMSend(t, TRUE)
    \/ \E t \in Tasks : DMReact(t, TRUE)
    \/ \E t \in Tasks : DMCooldown(t)
    \/ \E t \in Tasks, ev \in RelayCmdEvents :
          nCmd < MaxRelayCmds /\ CmdReceive(t, ev)
    \/ \E t \in Tasks : CmdRemove(t)
    \/ \E t \in Tasks : CmdCooldown(t)
    \/ \E t \in Tasks : Return(t)

SpecCooldown == Init /\ [][NextCooldown]_vars

\* the burst scenario: direct messages only, every platform call succeeds
NextBurst ==
    \/ Startup
    \/ \E t \in Tasks, u \in Users, x \in Texts :
          DMReceive(t, u, FALSE, x, <<>>)
    \/ \E t \in Tasks : DMAdmit(t)
    \/ \E t \in Tasks : DMAutoIgnore(t)
    \/ \E t \in Tasks : DMNotice(t, TRUE)
    \/ \E t \in Tasks : DMSend(t, TRUE)
    \/ \E t \in Tasks : DMReact(t, TRUE)
    \/ \E t \in Tasks : DMCooldown(t)
    \/ \E t \in Tasks : Return(t)

SpecBurst == Init /\ [][NextBurst]_vars

\* the staff-channel messages of the read-only scenario: m, fixgame, the
\* ignore commands without an id or with an id that is no integer, and
\* lines that match no case
FrameLines ==
    {<<W("m")>>, <<W("m"), W("hi")>>, <<W("fixgame")>>,
     <<W("ignore")>>, <<W("qignore")>>, <<W("unignore")>>,
     <<W("ignore"), W("abc")>>, <<W("qignore"), W("abc"), W("spam")>>,
     <<W("unignore"), W("abc")>>,
     <<W("hello")>>, <<W("hello"), D(111)>>}

FrameCmdEvents ==
    {CmdEvent(FALSE, TRUE, l, <<>>, "member", TRUE) : l \in FrameLines}

\* the read-only scenario: these commands next to direct messages
NextFrame ==
    \/ Startup
    \/ \E t \in Tasks, u \in Users, x \in Texts :
          nDM < MaxStaffDMs /\ DMReceive(t, u, FALSE, x, <<>>)
    \/ DMStep
    \/ \E t \in Tasks, ev \in FrameCmdEvents : CmdReceive(t, ev)
    \/ \E t \in Tasks : CmdCooldown(t)
    \/ \E t \in Tasks : Return(t)

SpecFrame == Init /\ [][NextFrame]_vars

\* the storage scenario: direct messages and the ignore and unignore
\* commands, with statements on the ignore table that can raise
NextStorage ==
    \/ Startup
    \/ \E t \in Tasks, u \in Users, x \in Texts :
          nDM < MaxStaffDMs /\ DMReceive(t, u, FALSE, x, <<>>)
    \/ \E t \in Tasks, u \in Users, x \in Texts :
          nDM < MaxStaffDMs /\ DMLookupFails(t, u, x)
    \/ DMStep
    \/ \E t \in Tasks, ev \in RelayCmdEvents : CmdReceive(t, ev)
    \/ \E t \in Tasks, ev \in RelayCmdEvents : CmdStoreFails(t, ev)
    \/ \E t \in Tasks : CmdRemove(t)
    \/ \E t \in Tasks : StoreFails(t)
    \/ \E t \in Tasks : CmdCooldown(t)
    \/ \E t \in Tasks : Return(t)

SpecStorage == Init /\ [][NextStorage]_vars

\* ------------------------------------------------------------ properties
\* task t takes a step of a direct-message handler
DMStepOf(t) == tasks'[t] # tasks[t] /\ tasks'[t].kind = "dm"

\* task t takes a step of a staff-command handler
CmdStepOf(t) == tasks'[t] # tasks[t] /\ tasks'[t].kind = "cmd"

\* task t starts: the event and its first awaited operation
Starts(t) == tasks[t].pc = "idle" /\ tasks'[t].pc # "idle"

\* what task t has emitted before the step
OutBefore(t) == IF tasks[t].pc = "idle" THEN <<>> ELSE tasks[t].out

Kinds(t) == {tasks[t].out[i].kind : i \in 1..Len(tasks[t].out)}

\* C1, as stated: while user u has a row in the ignore table, no step of a
\* direct-message handler of u (the cooldown decrement left aside) posts to
\* the staff channel, changes u's counter or sets last_id.
C1_Original ==
    [][\A t \in Tasks :
         (DMStepOf(t) /\ tasks[t].pc # "sleep" /\ HasRow(ignored, tasks'[t].uid))
            => /\ tasks'[t].out = OutBefore(t)
               /\ anti_spam_check' = anti_spam_check
               /\ last_id' = last_id]_vars

\* C1, amended: a direct message whose ignore lookup finds a row of its
\* author ends at once: it emits nothing, and it changes neither the
\* counters nor last_id nor the ignore table.
C1_IgnoredDrop ==
    [][\A t \in Tasks :
         /\ (Starts(t) /\ tasks'[t].kind = "dm" /\ HasRow(ignored, tasks'[t].uid))
               => /\ tasks'[t].pc = "done"
                  /\ tasks'[t].out = <<>>
                  /\ UNCHANGED <<anti_spam_check, last_id, ignored>>
         /\ (tasks[t].kind = "dm" /\ tasks[t].pc = "done" /\ tasks[t].out = <<>>)
               => tasks'[t] \in {tasks[t], IdleTask}]_vars

\* a direct message of an ignored user was dropped
C1_Witness ==
    \E t \in Tasks :
        /\ tasks[t].kind = "dm" /\ tasks[t].pc = "done"
        /\ tasks[t].path = "ignored" /\ tasks[t].out = <<>>
        /\ HasRow(ignored, tasks[t].uid)

\* C2: Threshold messages of one user admitted in one cooldown window are not
\* all sent on to the relay: the last of them trips the limiter; and the
\* handler that trips posts exactly one notice and nothing else.
C2_Claim ==
    /\ \A u \in Users : burst[u] < Threshold
    /\ \A t \in Tasks :
          (tasks[t].kind = "dm" /\ tasks[t].path = "tripped" /\ tasks[t].pc = "done")
             => tasks[t].out = <<Out(Channel, "auto_ignored", tasks[t].uid, <<>>, <<>>)>>

\* C3: every spam counter is at least 0.
C3_Claim == \A u \in DOMAIN anti_spam_check : anti_spam_check[u] >= 0

\* a call of add_ignore in this step: by the anti-spam step of task t ...
AutoAdds(t) ==
    tasks[t].kind = "dm" /\ tasks[t].pc = "add_ignore" /\ tasks'[t].pc = "notice"

\* ... or by an ignore or qignore command whose id is an integer
CmdAdds(t) ==
    /\ Starts(t) /\ tasks'[t].kind = "cmd"
    /\ tasks'[t].cmd \in {"ignore", "qignore"} /\ tasks'[t].member # ""

\* the row that the call of task t is to insert
AddedRow(t) ==
    IF AutoAdds(t)
    THEN [user_id |-> tasks[t].uid, quiet |-> 0, reason |-> <<AUTO_REASON>>]
    ELSE [user_id |-> tasks'[t].uid,
          quiet |-> IF tasks'[t].cmd = "qignore" THEN 1 ELSE 0,
          reason |-> tasks'[t].reason]

\* C4: add_ignore of a user without a row returns true and inserts the row;
\* add_ignore of a user with a row returns false and leaves the table as it
\* is; the table never holds two rows of one user.
C4_AddIgnoreUnique ==
    [][/\ \A t \in Tasks :
            (AutoAdds(t) \/ CmdAdds(t)) =>
               IF HasRow(ignored, AddedRow(t).user_id)
               THEN tasks'[t].ret = FALSE /\ ignored' = ignored
               ELSE tasks'[t].ret = TRUE /\ ignored' = ignored \cup {AddedRow(t)}
       /\ \A r1, r2 \in ignored' : r1.user_id = r2.user_id => r1 = r2]_vars

\* a second add_ignore of one user has returned false, the row is still there
C4_Witness ==
    \E t \in Tasks :
        /\ tasks[t].kind = "cmd" /\ tasks[t].cmd \in {"ignore", "qignore"}
        /\ tasks[t].member # "" /\ tasks[t].ret = FALSE
        /\ tasks[t].out = <<Post("already_ignored", tasks[t].uid, <<>>)>>
        /\ HasRow(ignored, tasks[t].uid)

\* a call of remove_ignore in this step
Removes(t) ==
    tasks[t].kind = "cmd" /\ tasks[t].pc = "remove" /\ tasks'[t].pc = "cooldown"

\* a call of is_ignored in this step, and the user it asks for
LooksUp(t) ==
    \/ Starts(t) /\ tasks'[t].kind = "dm"
    \/ Starts(t) /\ tasks'[t].kind = "cmd" /\ tasks'[t].pc = "remove"
    \/ tasks[t].kind = "cmd" /\ tasks[t].pc = "header" /\ tasks'[t].pc = "cooldown"

\* C5: remove_ignore deletes the user's row and reports a removal exactly
\* when there was one; is_ignored is empty exactly for a user without a row;
\* and a user gets a row only by an add_ignore that returns true.
C5_RoundTrip ==
    [][/\ \A t \in Tasks :
            Removes(t) =>
               /\ tasks'[t].ret = HasRow(ignored, tasks[t].uid)
               /\ ignored' = {r \in ignored : r.user_id # tasks[t].uid}
       /\ \A t \in Tasks :
            LooksUp(t) =>
               ((tasks'[t].res = None) <=> ~HasRow(ignored, tasks'[t].uid))
       /\ \A u \in Users :
            (~HasRow(ignored, u) /\ HasRow(ignored', u)) =>
               \E t \in Tasks : /\ AutoAdds(t) \/ CmdAdds(t)
                                /\ AddedRow(t).user_id = u
                                /\ tasks'[t].ret = TRUE]_vars

\* a user was unignored (a row was removed), and a later lookup of the same
\* user by a direct message has found nothing
C5_Witness ==
    \E t, d \in Tasks :
        /\ tasks[t].kind = "cmd" /\ tasks[t].cmd = "unignore"
        /\ tasks[t].pc = "cooldown" /\ tasks[t].ret = TRUE /\ tasks[t].res # None
        /\ tasks[d].kind = "dm" /\ tasks[d].uid = tasks[t].uid
        /\ tasks[d].pc = "admit" /\ tasks[d].res = None
        /\ ~HasRow(ignored, tasks[t].uid)

Oversized(t) == tasks[t].kind = "dm" /\ HardError(tasks[t].atts)

RelayPost(t) ==
    Out(Channel, "relay", tasks[t].uid, tasks[t].text, tasks[t].atts)

Reaction(t) == Out(tasks[t].uid, "reaction", tasks[t].uid, <<>>, <<>>)

\* C6, as stated: the handler of a direct message with an attachment over
\* SIZE_LIMIT posts nothing and acknowledges nothing.
C6_Original == \A t \in Tasks : Oversized(t) => tasks[t].out = <<>>

\* C6, amended: on_message does not check the size of the attachments of a
\* direct message; once admitted, a message with an attachment over
\* SIZE_LIMIT is posted with its text and attachments, acknowledged, and
\* last_id is set to its author, unless a call of the platform fails.
C6_OversizedRelayed ==
    [][\A t \in Tasks :
         (Oversized(t) /\ tasks'[t] # tasks[t]) =>
            /\ tasks[t].pc = "send" =>
                  \/ tasks'[t].pc = "raised"
                  \/ /\ tasks'[t].pc = "react"
                     /\ tasks'[t].out = <<RelayPost(t)>>
            /\ tasks[t].pc = "react" =>
                  \/ tasks'[t].pc = "raised" /\ last_id' = last_id
                  \/ /\ tasks'[t].pc = "sleep"
                     /\ tasks'[t].out = <<RelayPost(t), Reaction(t)>>
                     /\ last_id' = Some(tasks[t].uid)]_vars

\* a direct message with an attachment over SIZE_LIMIT was relayed
C6_Witness ==
    \E t \in Tasks :
        /\ Oversized(t) /\ tasks[t].pc = "sleep"
        /\ tasks[t].out = <<RelayPost(t), Reaction(t)>>
        /\ last_id = Some(tasks[t].uid)

\* C7: last_id changes only in the step in which the acknowledgment of a
\* direct message returns, for a message whose lookup found no row, that the
\* anti-spam step let through and whose one post carries the author's id and
\* the text; last_id is then the author's id.
C7_LastIdOnlyByRelay ==
    [][last_id' # last_id =>
         \E t \in Tasks :
            /\ tasks[t].kind = "dm" /\ tasks[t].pc = "react"
            /\ tasks[t].res = None /\ tasks[t].path = "relay"
            /\ tasks[t].out = <<RelayPost(t)>>
            /\ tasks'[t].pc = "sleep"
            /\ tasks'[t].out = <<RelayPost(t), Reaction(t)>>
            /\ last_id' = Some(tasks[t].uid)]_vars

\* last_id was set by the relay of a message of user 222 and is still that
\* while a staff command is handled
C7_Witness ==
    /\ last_id = Some(222)
    /\ \E t, c \in Tasks :
          /\ tasks[t].kind = "dm" /\ tasks[t].pc = "sleep" /\ tasks[t].uid = 222
          /\ tasks[c].kind = "cmd" /\ tasks[c].pc = "cooldown"

\* C8: an r command that arrives while last_id is unset posts the "no last
\* message" report and nothing else, sends no direct message, and changes
\* neither the ignore table nor the counters nor last_id.
C8_ReplyWithoutLast ==
    [][\A t \in Tasks :
         (Starts(t) /\ tasks'[t].kind = "cmd" /\ tasks'[t].cmd = "r"
            /\ last_id = None) =>
            /\ tasks'[t].out = <<Post("no_last", 0, <<>>)>>
            /\ tasks'[t].pc = "done"
            /\ UNCHANGED <<ignored, anti_spam_check, last_id>>]_vars

\* an r command was answered with the "no last message" report
C8_Witness ==
    \E t \in Tasks :
        /\ tasks[t].kind = "cmd" /\ tasks[t].cmd = "r" /\ tasks[t].pc = "done"
        /\ tasks[t].out = <<Post("no_last", 0, <<>>)>>
        /\ last_id = None

\* C9: a staff reply whose delivery the target refuses ends with the
\* "disabled DMs" report; its handler posts no confirmation, delivers no
\* direct message and does not delete the command message.
C9_RefusedReply ==
    \A t \in Tasks :
        (tasks[t].kind = "cmd" /\ tasks[t].cmd \in {"num", "r"}
           /\ tasks[t].dm = "forbidden") =>
           /\ tasks[t].pc \in {"cooldown", "done"}
           /\ tasks[t].out # <<>>
           /\ tasks[t].out[Len(tasks[t].out)] = Post("disabled_dms", tasks[t].uid, <<>>)
           /\ Kinds(t) \cap {"replying", "replying_ignored", "delete_command",
                             "staff_reply"} = {}

\* an r reply was refused by its target
C9_Witness ==
    \E t \in Tasks :
        /\ tasks[t].kind = "cmd" /\ tasks[t].cmd = "r"
        /\ tasks[t].dm = "forbidden" /\ tasks[t].pc = "done"
        /\ "disabled_dms" \in Kinds(t)

\* C10: qignore <id> spam for a user without a row inserts the row with
\* quiet = 1 and the reason, so that is_ignored gives (1, "spam"); the
\* handler posts the confirmation and nothing else, then and later.
C10_QuietIgnore ==
    [][\A t \in Tasks :
         /\ (Starts(t) /\ tasks'[t].kind = "cmd" /\ tasks'[t].cmd = "qignore"
               /\ tasks'[t].member # "" /\ ~HasRow(ignored, tasks'[t].uid)) =>
               /\ ignored' = ignored \cup
                     {[user_id |-> tasks'[t].uid, quiet |-> 1,
                       reason |-> Some(<<W("spam")>>)]}
               /\ is_ignored(ignored', tasks'[t].uid)
                     = Some(<<1, Some(<<W("spam")>>)>>)
               /\ tasks'[t].out = <<Post("now_ignored", tasks'[t].uid, <<>>)>>
         /\ (tasks[t].kind = "cmd" /\ tasks[t].cmd = "qignore" /\ CmdStepOf(t)) =>
               tasks'[t].out = tasks[t].out]_vars

\* a qignore command has inserted a quiet row and confirmed it
C10_Witness ==
    \E t \in Tasks :
        /\ tasks[t].kind = "cmd" /\ tasks[t].cmd = "qignore"
        /\ tasks[t].pc = "done" /\ tasks[t].ret = TRUE
        /\ tasks[t].out = <<Post("now_ignored", tasks[t].uid, <<>>)>>
        /\ [user_id |-> tasks[t].uid, quiet |-> 1, reason |-> Some(<<W("spam")>>)]
              \in ignored

\* the outbound calls of kind k that task t has made
OutsOf(t, k) == {i \in 1..Len(tasks[t].out) : tasks[t].out[i].kind = k}

\* C11: in a staff reply to a member, an attachment over SIZE_LIMIT blocks
\* the reply: the error is the handler's only outbound call, nothing is
\* downloaded and nothing is sent to the target. Otherwise nothing is
\* rejected, every attachment is downloaded, in order, and the warning is
\* posted, first, exactly when some size s has
\* SIZE_LIMIT - 0x1000 < s <= SIZE_LIMIT; so SIZE_LIMIT itself is accepted.
C11_Classification ==
    \A t \in Tasks :
        (tasks[t].kind = "cmd" /\ tasks[t].cmd = "num"
           /\ tasks[t].member = "member" /\ tasks[t].atts # <<>>) =>
        LET a    == tasks[t].atts
            hard == \E i \in 1..Len(a) : a[i] > 8388608
            soft == \E i \in 1..Len(a) : a[i] > 8388608 - 4096 /\ a[i] <= 8388608
            down == [i \in 1..Len(a) |-> Out(Channel, "downloaded", 0, <<>>, <<a[i]>>)]
        IN  IF hard
            THEN /\ tasks[t].out = <<Out(Channel, "too_large", 0, <<>>, a)>>
                 /\ tasks[t].dm = ""
                 /\ tasks[t].pc \in {"cooldown", "done"}
            ELSE /\ OutsOf(t, "too_large") = {}
                 /\ OutsOf(t, "size_warning") = IF soft THEN {1} ELSE {}
                 /\ LET n == IF soft THEN 1 ELSE 0
                    IN  /\ Len(tasks[t].out) >= n + 1 + Len(a)
                        /\ tasks[t].out[n + 1].kind = "progress"
                        /\ SubSeq(tasks[t].out, n + 2, n + 1 + Len(a)) = down

\* a reply with an attachment of exactly SIZE_LIMIT was delivered, after
\* the warning, and one with an attachment of SIZE_LIMIT + 1 next to a
\* small one was blocked
C11_Witness ==
    \E t, s \in Tasks :
        /\ tasks[t].kind = "cmd" /\ tasks[t].atts = <<SIZE_LIMIT>>
        /\ OutsOf(t, "size_warning") = {1} /\ OutsOf(t, "staff_reply") # {}
        /\ tasks[s].kind = "cmd"
        /\ tasks[s].atts = <<SIZE_LIMIT - WARN_MARGIN, SIZE_LIMIT + 1>>
        /\ tasks[s].member = "member" /\ OutsOf(s, "too_large") = {1}

\* C12: while already_ready is false no event is handled: no handler is
\* started or moved, and the ignore table, the counters and last_id do not
\* change; already_ready becomes true only with the channel resolved, and
\* never becomes false again.
C12_Claim ==
    [][/\ ~already_ready =>
            /\ tasks' = tasks
            /\ UNCHANGED <<ignored, anti_spam_check, last_id>>
       /\ already_ready => already_ready'
       /\ (~already_ready /\ already_ready') => channel']_vars

\* a staff reply in progress or ended: a numeric or r command that got to
\* handle_staff_reply
IsReply(t) ==
    tasks[t].kind = "cmd" /\ tasks[t].cmd \in {"num", "r"} /\ tasks[t].member # ""

\* C13: the handler of a staff reply deletes the command message only after
\* it has delivered the direct message and, after that, posted the
\* confirmation; when the target is no member or is a bot, when an
\* attachment is over SIZE_LIMIT or when the delivery is refused, it
\* delivers no direct message, posts no confirmation and deletes nothing.
C13_DeleteAfterConfirm ==
    \A t \in Tasks : IsReply(t) =>
        LET sent == OutsOf(t, "staff_reply")
            conf == OutsOf(t, "replying") \cup OutsOf(t, "replying_ignored")
            del  == OutsOf(t, "delete_command")
        IN  /\ \A d \in del : \E c \in conf : c < d /\ \E m \in sent : m < c
            /\ (\/ tasks[t].member \in {"absent", "bot"}
                \/ \E i \in 1..Len(tasks[t].atts) : tasks[t].atts[i] > SIZE_LIMIT
                \/ tasks[t].dm = "forbidden")
                  => /\ sent = {} /\ conf = {} /\ del = {}
                     /\ tasks[t].pc \in {"cooldown", "done"}

\* a staff reply with an attachment was delivered and confirmed, and the
\* command message was deleted last
C13_Witness ==
    \E t \in Tasks :
        /\ IsReply(t) /\ tasks[t].atts # <<>> /\ tasks[t].pc = "cooldown"
        /\ OutsOf(t, "staff_reply") # {}
        /\ OutsOf(t, "replying") # {}
        /\ OutsOf(t, "delete_command") = {Len(tasks[t].out)}

\* C14: an ignore command with an integer id, for a user with a row, posts
\* "already ignored", sends the user nothing and leaves the table as it is;
\* for a user without a row it inserts the row and posts the confirmation
\* last, after the delivered notification, after the report of a refused
\* one, or after the report that the user was not found; its handler does
\* not touch the table again.
C14_IgnoreConfirms ==
    [][\A t \in Tasks :
         /\ (Starts(t) /\ tasks'[t].kind = "cmd" /\ tasks'[t].cmd = "ignore"
               /\ tasks'[t].member # "") =>
               LET u == tasks'[t].uid
                   confirmation == Post("now_ignored", u, <<>>)
               IN  IF HasRow(ignored, u)
                   THEN /\ tasks'[t].out = <<Post("already_ignored", u, <<>>)>>
                        /\ tasks'[t].dm = ""
                        /\ ignored' = ignored
                   ELSE /\ HasRow(ignored', u)
                        /\ Len(tasks'[t].out) = 2
                        /\ tasks'[t].out[2] = confirmation
                        /\ tasks'[t].out[1].kind =
                              IF tasks'[t].member = "absent" THEN "notify_not_found"
                              ELSE IF tasks'[t].dm = "forbidden" THEN "notify_disabled"
                              ELSE "ignore_notice"
                        /\ (tasks'[t].out[1].kind = "ignore_notice")
                              = (tasks'[t].dm = "delivered")
         /\ (tasks[t].kind = "cmd" /\ tasks[t].cmd = "ignore" /\ CmdStepOf(t)) =>
               /\ ignored' = ignored
               /\ tasks'[t].out = tasks[t].out]_vars

\* an ignore command was confirmed after a refused notification, and
\* another one for the same user was answered with "already ignored"
C14_Witness ==
    \E t, s \in Tasks :
        /\ tasks[t].kind = "cmd" /\ tasks[t].cmd = "ignore"
        /\ tasks[t].out = <<Post("notify_disabled", tasks[t].uid, <<>>),
                            Post("now_ignored", tasks[t].uid, <<>>)>>
        /\ tasks[s].kind = "cmd" /\ tasks[s].cmd = "ignore"
        /\ tasks[s].uid = tasks[t].uid
        /\ tasks[s].out = <<Post("already_ignored", tasks[s].uid, <<>>)>>
        /\ HasRow(ignored, tasks[t].uid)

\* C15: an unignore command with an integer id first looks the row up and
\* removes nothing yet; for a user without a row or with a quiet row it
\* makes no outbound call, for a user with a row that is not quiet it makes
\* one notify attempt (delivered, refused and reported, or reported as not
\* found). Its next step is remove_ignore, followed by the report "no
\* longer ignored" when a row was removed and "not ignored" otherwise.
C15_UnignoreOrder ==
    [][\A t \in Tasks :
         /\ (Starts(t) /\ tasks'[t].kind = "cmd" /\ tasks'[t].cmd = "unignore"
               /\ tasks'[t].member # "") =>
               LET u    == tasks'[t].uid
                   rows == {r \in ignored : r.user_id = u}
               IN  /\ ignored' = ignored
                   /\ tasks'[t].pc = "remove"
                   /\ IF rows = {} \/ \E r \in rows : r.quiet = 1
                      THEN tasks'[t].out = <<>> /\ tasks'[t].dm = ""
                      ELSE /\ Len(tasks'[t].out) = 1
                           /\ tasks'[t].out[1] =
                                 IF tasks'[t].member = "absent"
                                 THEN Post("notify_not_found", u, <<>>)
                                 ELSE IF tasks'[t].dm = "forbidden"
                                 THEN Post("notify_disabled", u, <<>>)
                                 ELSE Out(u, "unignore_notice", u, <<>>, <<>>)
         /\ (tasks[t].kind = "cmd" /\ tasks[t].cmd = "unignore"
               /\ tasks[t].pc = "remove" /\ tasks'[t] # tasks[t]) =>
               LET u == tasks[t].uid
               IN  /\ ignored' = {r \in ignored : r.user_id # u}
                   /\ tasks'[t].out =
                         Append(tasks[t].out,
                                Post(IF HasRow(ignored, u) THEN "no_longer_ignored"
                                     ELSE "not_ignored", u, <<>>))]_vars

\* an unignore command whose notification was refused has removed the row
\* and reported it
C15_Witness ==
    \E t \in Tasks :
        /\ tasks[t].kind = "cmd" /\ tasks[t].cmd = "unignore"
        /\ tasks[t].out = <<Post("notify_disabled", tasks[t].uid, <<>>),
                            Post("no_longer_ignored", tasks[t].uid, <<>>)>>
        /\ ~HasRow(ignored, tasks[t].uid)

\* C16: when no handler of a direct message of user u is in flight (every
\* message was dropped, has tripped, or was relayed and its cooldown has
\* elapsed), the counter of u is 0.
C16_Claim ==
    \A u \in Users :
        (\A t \in Tasks : ~(tasks[t].kind = "dm" /\ tasks[t].uid = u))
            => Count(u) = 0

\* C17: in the read-only scenario (m, fixgame, ignore, qignore and unignore
\* without an id or with an id that is no integer, lines that match no
\* case) no step of a command handler changes the ignore table, a counter
\* or last_id, no outbound call of a command handler goes to a user, and
\* the handler of a line that matches no case makes no outbound call.
C17_ReadOnlyCommands ==
    [][\A t \in Tasks :
         CmdStepOf(t) =>
            /\ UNCHANGED <<ignored, anti_spam_check, last_id>>
            /\ \A i \in 1..Len(tasks'[t].out) : tasks'[t].out[i].to \notin Users
            /\ Is(tasks'[t].text[1], "hello") => tasks'[t].out = <<>>]_vars

\* an ignore command with an id that is no integer was answered while
\* last_id is set and a user is ignored
C17_Witness ==
    \E t \in Tasks :
        /\ tasks[t].kind = "cmd" /\ Is(tasks[t].text[1], "ignore")
        /\ tasks[t].out = <<Post("not_int", 0, <<>>)>>
        /\ last_id # None /\ ignored # {}

\* C18: the step in which a statement on the ignore table raises a storage
\* error leaves the table as it was, ends the operation, and adds a report
\* of the failure to the staff channel to the handler's outbound calls.
C18_Claim ==
    [][\A t \in Tasks :
         (tasks'[t].path = "storage_error" /\ tasks[t].path # "storage_error") =>
            /\ ignored' = ignored
            /\ tasks'[t].pc \in {"raised", "done", "cooldown"}
            /\ Len(tasks'[t].out) = Len(OutBefore(t)) + 1
            /\ tasks'[t].out[Len(tasks'[t].out)].to = Channel]_vars

\* the step in which task t forwards a typing indicator
Forwards(t) ==
    /\ tasks[t].kind = "typing" /\ tasks[t].pc = "typing"
    /\ tasks'[t].out # tasks[t].out

\* C19, as stated: a typing indicator of user u is forwarded only while u
\* has no row in the ignore table, and no step of a typing handler changes
\* the table, a counter or last_id.
C19_Original ==
    [][\A t \in Tasks :
         /\ Forwards(t) => ~HasRow(ignored, tasks[t].uid)
         /\ (tasks'[t] # tasks[t] /\ tasks'[t].kind = "typing") =>
               UNCHANGED <<ignored, anti_spam_check, last_id>>]_vars

\* C19, amended: a typing indicator is forwarded only by a handler whose
\* lookup found no row of the user; the lookup finds a row exactly when the
\* table holds one at that moment, and then the handler ends with no
\* outbound call; a forward is one typing call on the staff channel; no
\* step of a typing handler changes the table, a counter or last_id.
C19_TypingForward ==
    [][\A t \in Tasks :
         /\ (Starts(t) /\ tasks'[t].kind = "typing") =>
               /\ (tasks'[t].res = None) = ~HasRow(ignored, tasks'[t].uid)
               /\ tasks'[t].out = <<>>
               /\ HasRow(ignored, tasks'[t].uid) => tasks'[t].pc = "done"
         /\ Forwards(t) =>
               /\ tasks[t].res = None
               /\ tasks'[t].out =
                     <<Out(Channel, "typing", tasks[t].uid, <<>>, <<>>)>>
         /\ (tasks'[t] # tasks[t] /\ tasks'[t].kind = "typing") =>
               UNCHANGED <<ignored, anti_spam_check, last_id>>]_vars

\* a typing indicator was forwarded by a handler whose lookup found no row,
\* after the user was ignored in between
C19_Witness ==
    \E t \in Tasks :
        /\ tasks[t].kind = "typing" /\ tasks[t].pc = "done"
        /\ tasks[t].res = None
        /\ tasks[t].out = <<Out(Channel, "typing", tasks[t].uid, <<>>, <<>>)>>
        /\ HasRow(ignored, tasks[t].uid)

\* C20: an auto-ignore notice is posted only by a handler whose add_ignore
\* has inserted the row, and no counter exceeds Threshold.
C20_Claim ==
    /\ \A t \in Tasks :
          (tasks[t].kind = "dm" /\ OutsOf(t, "auto_ignored") # {})
             => tasks[t].ret = TRUE
    /\ \A u \in Users : Count(u) <= Threshold

\* an unignore command that has sent the user the notice
Notified(t) ==
    /\ tasks[t].kind = "cmd" /\ tasks[t].cmd = "unignore"
    /\ OutsOf(t, "unignore_notice") # {}

\* C21, as stated: an unignore command that has sent the user the "no
\* longer being ignored" notice does not report "not ignored": its own
\* remove_ignore removes the row.
C21_Original ==
    \A t \in Tasks : Notified(t) => OutsOf(t, "not_ignored") = {}

\* C21, amended: the notice is sent only by an unignore command whose own
\* lookup found a row of the user that is not quiet, and before its
\* remove_ignore; a command reports "no longer ignored" exactly when its
\* own remove_ignore removes a row, after which the user has none, so that
\* of the commands that notified for one row only the first to remove
\* reports "no longer ignored" and the others report "not ignored".
C21_NotifyByLookup ==
    [][\A t \in Tasks :
         /\ Notified(t)' =>
               /\ tasks'[t].res # None /\ tasks'[t].res[1][1] = 0
               /\ OutsOf(t, "unignore_notice")' = {1}
         /\ (tasks[t].kind = "cmd" /\ tasks[t].cmd = "unignore"
               /\ tasks'[t].kind = "cmd" /\ tasks'[t].out # tasks[t].out) =>
               LET last == tasks'[t].out[Len(tasks'[t].out)]
               IN  /\ tasks[t].pc = "remove"
                   /\ last.kind = IF HasRow(ignored, tasks[t].uid)
                                  THEN "no_longer_ignored" ELSE "not_ignored"
                   /\ ~HasRow(ignored', tasks[t].uid)
                   /\ \A s \in Tasks \ {t} : tasks'[s] = tasks[s]]_vars

\* two overlapping unignore commands for one row have both notified the
\* user; one has reported "no longer ignored" and the other "not ignored"
C21_Witness ==
    \E t, s \in Tasks :
        /\ t # s /\ Notified(t) /\ Notified(s)
        /\ tasks[t].uid = tasks[s].uid
        /\ OutsOf(t, "no_longer_ignored") = {2}
        /\ OutsOf(s, "not_ignored") = {2}

====
